---- MODULE Spec2Model ----
(***************************************************************************)
(* Model of BoschPricingOptimizer (src/AWS_DEPLOYMENT.py, "Prescriptive    *)
(* Pricing Tool"): prepare_features, forecast_demand, optimize_price and   *)
(* generate_recommendations.                                               *)
(*                                                                         *)
(* Numbers.  The program computes in floating point; the model computes    *)
(* the same expressions, in the same order, in exact rational arithmetic.  *)
(* A number is a record [n, d] in lowest terms with d > 0; the record with *)
(* d = 0 stands for the float NaN.  Prices handed in by the caller are     *)
(* whole numbers.                                                          *)
(***************************************************************************)
EXTENDS Integers, Sequences, FiniteSets, TLC

VARIABLES model, numpy_prices, elasticities, features, call, fd, products, gr,
          conc, http

vars == <<model, numpy_prices, elasticities, features, call, fd, products, gr,
          conc, http>>

(***************************************************************************)
(* Bounds of the model.                                                    *)
(***************************************************************************)
\* caller prices range over 9..MaxPrice
MaxPrice == 13
\* longest batch handed to generate_recommendations
MaxBatch == 3

(***************************************************************************)
(* Exact rational arithmetic.                                              *)
(***************************************************************************)
Abs(x) == IF x < 0 THEN -x ELSE x

RECURSIVE Gcd(_, _)
Gcd(a, b) == IF b = 0 THEN a ELSE Gcd(b, a % b)

Rat(n, d) ==
    LET g == Gcd(Abs(n), Abs(d))
        s == IF d < 0 THEN -1 ELSE 1
    IN  [n |-> (s * n) \div g, d |-> (s * d) \div g]

R(i) == [n |-> i, d |-> 1]

NaN == [n |-> 0, d |-> 0]

IsNaN(a) == a.d = 0

RNeg(a) == [n |-> -a.n, d |-> a.d]

RAdd(a, b) ==
    LET g == Gcd(a.d, b.d)
    IN  Rat(a.n * (b.d \div g) + b.n * (a.d \div g), (a.d \div g) * b.d)

RSub(a, b) == RAdd(a, RNeg(b))

RMul(a, b) ==
    LET g1 == Gcd(Abs(a.n), b.d)
        g2 == Gcd(Abs(b.n), a.d)
    IN  Rat((a.n \div g1) * (b.n \div g2), (a.d \div g2) * (b.d \div g1))

\* a / b for b # 0
RDiv(a, b) == RMul(a, Rat(b.d, b.n))

\* a < b, compared by continued fractions so that no product is formed
RECURSIVE RLess(_, _)
RLess(a, b) ==
    LET qa == a.n \div a.d
        qb == b.n \div b.d
        ra == a.n % a.d
        rb == b.n % b.d
    IN  IF qa # qb THEN qa < qb
        ELSE IF rb = 0 THEN FALSE
        ELSE IF ra = 0 THEN TRUE
        ELSE RLess([n |-> b.d, d |-> rb], [n |-> a.d, d |-> ra])

\* Python's a > b on floats: false as soon as one side is NaN
Greater(a, b) == ~IsNaN(a) /\ ~IsNaN(b) /\ RLess(b, a)

RLeq(a, b) == ~RLess(b, a)

(***************************************************************************)
(* Values of the program.                                                  *)
(***************************************************************************)
\* min_price=None, max_price=None: the omitted bound (no price is 0)
None == 0

\* a feature value the estimator cannot take as a number (a string, None)
NonNumeric == -1000000

\* np.linspace(min_price, max_price, 50)
NumPoints == 50

Prices == 9..MaxPrice

\* self.features
FeatureList ==
    << "Price", "Promotion", "Supplier_Cost", "Stock_Level",
       "Replenishment_Lead_Time", "Month", "Quarter", "DayOfWeek",
       "WeekOfYear", "Is_Weekend", "Year", "Profit_Margin",
       "Margin_Percentage", "Stock_Out_Risk", "Avg_Category_Price",
       "Price_Ratio_To_Avg", "Product_Category_Encoded",
       "Store_Location_Encoded" >>

\* self.elasticities
ElasticityTable ==
    [c \in {"Snacks", "Beverages", "Dairy", "Household", "Personal Care"} |->
        CASE c = "Snacks"        -> Rat(-14, 10)
          [] c = "Beverages"     -> Rat(-13, 10)
          [] c = "Dairy"         -> Rat(-9, 10)
          [] c = "Household"     -> Rat(-7, 10)
          [] c = "Personal Care" -> Rat(-6, 10)]

\* categories a caller passes: the five of the table and one it lacks
Categories == DOMAIN ElasticityTable \cup {"Frozen"}

\* a product mapping of the caller (after sample_products)
SampleProduct ==
    [k \in {"Product_Category", "Store_Location", "Price", "Promotion",
            "Supplier_Cost", "Stock_Level"} |->
        CASE k = "Product_Category" -> "Snacks"
          [] k = "Store_Location"   -> "Urban"
          [] k = "Price"            -> 10
          [] k = "Promotion"        -> 0
          [] k = "Supplier_Cost"    -> 8
          [] k = "Stock_Level"      -> 200]

\* d[k] = v on a Python dict
SetItem(d, k, v) ==
    [x \in DOMAIN d \cup {k} |-> IF x = k THEN v ELSE d[x]]

\* del d[k]
DelItem(d, k) == [x \in DOMAIN d \ {k} |-> d[x]]

\* the trained regressors the optimizer may have loaded: the estimator is
\* external, any deterministic map from the feature vector to a number
Models ==
    { [bias |-> 1000, wPrice |-> 0],
      [bias |-> 1100, wPrice |-> -100] }

(***************************************************************************)
(* BoschPricingOptimizer                                                   *)
(***************************************************************************)
\* self.model.predict(features)[0]: raises on a non-numeric feature
predict(m, feature_vector) ==
    IF \E i \in DOMAIN feature_vector : feature_vector[i] = NonNumeric
    THEN [raised |-> TRUE, error |-> "ValueError", value |-> 0]
    ELSE [raised |-> FALSE, error |-> "none",
          value |-> m.bias + m.wPrice * feature_vector[1]]

\* mutant: a feature missing from the mapping appended as it is (None)
prepare_features_missing_kept(feats, product_data) ==
    [i \in 1..Len(feats) |->
        IF feats[i] \in DOMAIN product_data
        THEN product_data[feats[i]]
        ELSE NonNumeric]

\* for feature in self.features: append product_data[feature] or 0.0
prepare_features(feats, product_data) ==
    [i \in 1..Len(feats) |->
        IF feats[i] \in DOMAIN product_data
        THEN product_data[feats[i]]
        ELSE 0]

\* mutant: the estimate returned as it comes
forecast_demand_unclamped(m, feats, product_data) ==
    predict(m, prepare_features(feats, product_data))

\* max(0, prediction)
forecast_demand(m, feats, product_data) ==
    LET p == predict(m, prepare_features(feats, product_data))
    IN  IF p.raised THEN p
        ELSE [raised |-> FALSE, error |-> "none",
              value |-> IF 0 >= p.value THEN 0 ELSE p.value]

\* mutant: np.linspace(start, stop, num, endpoint=False)
linspace_open(start, stop, num) ==
    [i \in 1..num |->
        RAdd(start, RMul(R(i - 1), RDiv(RSub(stop, start), R(num))))]

\* np.linspace(start, stop, num)[i], i = 1..num
linspace(start, stop, num) ==
    LET step == RDiv(RSub(stop, start), R(num - 1))
    IN  [i \in 1..num |->
            IF i = num THEN stop ELSE RAdd(start, RMul(R(i - 1), step))]

\* mutant: self.elasticities.get(category, 0)
get_elasticity_zero_default(table, category) ==
    IF category \in DOMAIN table THEN table[category] ELSE R(0)

\* mutant: self.elasticities.get(category) or -1.0
get_elasticity_falsy(table, category) ==
    IF category \in DOMAIN table /\ table[category] # R(0)
    THEN table[category] ELSE R(-1)

\* self.elasticities.get(category, -1.0)
get_elasticity(table, category) ==
    IF category \in DOMAIN table THEN table[category] ELSE R(-1)

\* mutant: self.elasticities.setdefault(category, -1.0), which stores the
\* default under a category the table lacks
elasticities_after_setdefault(table, category) ==
    IF category \in DOMAIN table THEN table
    ELSE [k \in DOMAIN table \cup {category} |->
             IF k = category THEN R(-1) ELSE table[k]]

\* self.elasticities once self.elasticities.get(category, -1.0) has run:
\* dict.get stores nothing
elasticities_after(table, category) == table

\* self.elasticities after an optimize_price call with outcome out: the
\* loop with the lookup is reached unless the estimator raised
table_after_call(table, category, out) ==
    IF out.status = "raised" /\ out.error = "ValueError" THEN table
    ELSE elasticities_after(table, category)

\* results.append({...}) for a candidate with its adjusted demand
entry(test_price, price_change_pct, adjusted_demand) ==
    [price |-> test_price, demand |-> adjusted_demand,
     revenue |-> RMul(test_price, adjusted_demand),
     price_change_pct |-> price_change_pct]

\* adjusted_demand = base_demand * (1 + elasticity * price_change_pct)
adjust(test_price, price_change_pct, base_demand, elasticity) ==
    entry(test_price, price_change_pct,
          RMul(base_demand, RAdd(R(1), RMul(elasticity, price_change_pct))))

\* one pass of the loop body: the appended entry of results
simulate(test_price, current_price, base_demand, elasticity) ==
    adjust(test_price, RDiv(RSub(test_price, current_price), current_price),
           base_demand, elasticity)

\* mutant: if test_revenue < best_revenue
improves_flipped(test_revenue, best_revenue) ==
    Greater(best_revenue, test_revenue)

\* mutant: if test_revenue >= best_revenue
improves_or_equal(test_revenue, best_revenue) ==
    ~IsNaN(test_revenue) /\ ~IsNaN(best_revenue)
        /\ RLeq(best_revenue, test_revenue)

\* if test_revenue > best_revenue: ...
improves(test_revenue, best_revenue) == Greater(test_revenue, best_revenue)

\* the for loop from candidate i on, best = (best_price, best_revenue)
RECURSIVE scan(_, _, _)
RECURSIVE scan_entry(_, _, _, _)
scan(results, i, best) ==
    IF i > Len(results) THEN best
    ELSE scan_entry(results, i, best, results[i])

scan_entry(results, i, best, e) ==
    IF improves(e.revenue, best.revenue)
    THEN scan(results, i + 1, [price |-> e.price, revenue |-> e.revenue])
    ELSE scan(results, i + 1, best)

\* a / b in the result dictionary: Python floats raise on a zero divisor,
\* numpy float64 scalars yield nan (0/0) with a warning
float_div(a, b, np) ==
    IF b.n # 0 THEN [raised |-> FALSE, value |-> RDiv(a, b)]
    ELSE IF np THEN [raised |-> FALSE, value |-> NaN]
    ELSE [raised |-> TRUE, value |-> NaN]

\* the lower default taken 30% of the current price instead of 30% below it
LowBound_thirty_percent(current_price, min_price) ==
    IF min_price = None THEN RMul(R(current_price), Rat(3, 10))
    ELSE R(min_price)

\* if min_price is None: ...; if max_price is None: ...
LowBound(current_price, min_price) ==
    IF min_price = None THEN RMul(R(current_price), Rat(7, 10))
    ELSE R(min_price)

\* mutant: the upper default taken as twice the current price
HighBound_doubled(current_price, max_price) ==
    IF max_price = None THEN RMul(R(current_price), R(2))
    ELSE R(max_price)

\* if max_price is None: max_price = current_price * 1.3
HighBound(current_price, max_price) ==
    IF max_price = None THEN RMul(R(current_price), Rat(13, 10))
    ELSE R(max_price)

\* mutant: both percentages left as fractions (no * 100)
result_dict_fractions(pd, current_price, base_revenue, results, best, inc) ==
    IF inc.raised
    THEN [status |-> "raised", error |-> "ZeroDivisionError",
          product_data |-> pd, result |-> <<>>]
    ELSE [status |-> "returned", error |-> "none", product_data |-> pd,
          result |->
            [current_price |-> current_price,
             optimal_price |-> best.price,
             current_revenue |-> base_revenue,
             optimal_revenue |-> best.revenue,
             revenue_increase_pct |-> inc.value,
             price_change_pct |->
                 RDiv(RSub(best.price, current_price), current_price),
             simulation_results |-> results]]

\* return {...}: inc is (best_revenue - base_revenue) / base_revenue
result_dict(pd, current_price, base_revenue, results, best, inc) ==
    IF inc.raised
    THEN [status |-> "raised", error |-> "ZeroDivisionError",
          product_data |-> pd, result |-> <<>>]
    ELSE [status |-> "returned", error |-> "none", product_data |-> pd,
          result |->
            [current_price |-> current_price,
             optimal_price |-> best.price,
             current_revenue |-> base_revenue,
             optimal_revenue |-> best.revenue,
             revenue_increase_pct |->
                 IF IsNaN(inc.value) THEN NaN ELSE RMul(inc.value, R(100)),
             price_change_pct |->
                 RMul(RDiv(RSub(best.price, current_price), current_price),
                      R(100)),
             simulation_results |-> results]]

\* the end of the call, the loop having left best
finish(np, pd, current_price, base_revenue, results, best) ==
    result_dict(pd, current_price, base_revenue, results, best,
        float_div(RSub(best.revenue, base_revenue), base_revenue, np))

\* mutant: the scan starts from the first candidate, not from the baseline
search_from_first(np, pd, current_price, base_revenue, results) ==
    finish(np, pd, current_price, base_revenue, results,
        scan(results, 1,
             [price |-> results[1].price, revenue |-> results[1].revenue]))

\* the loop over price_points, from best = (current_price, base_revenue)
search(np, pd, current_price, base_revenue, results) ==
    finish(np, pd, current_price, base_revenue, results,
        scan(results, 1, [price |-> current_price, revenue |-> base_revenue]))

\* the call from base_demand on
simulate_all(table, np, pd, current_price, category, lo, hi, base_demand) ==
    search(np, pd, current_price, RMul(current_price, base_demand),
        [i \in 1..NumPoints |->
            simulate(linspace(lo, hi, NumPoints)[i], current_price,
                     base_demand, get_elasticity(table, category))])

\* the call after the estimator answered f
forecasted(table, np, pd, current_price, category, lo, hi, f) ==
    IF f.raised
    THEN [status |-> "raised", error |-> f.error, product_data |-> pd,
          result |-> <<>>]
    ELSE simulate_all(table, np, pd, R(current_price), category, lo, hi,
                      R(f.value))

\* the call after product_data['Price'] = current_price
with_price(m, feats, table, np, pd, current_price, category, lo, hi) ==
    forecasted(table, np, pd, current_price, category, lo, hi,
               forecast_demand(m, feats, pd))

\* mutant: the call works on a copy, the caller's mapping stays as it was
optimize_price_on_copy(m, feats, table, np, product_data, current_price, category, min_price, max_price) ==
    [with_price(m, feats, table, np,
                SetItem(product_data, "Price", current_price),
                current_price, category, LowBound(current_price, min_price),
                HighBound(current_price, max_price))
        EXCEPT !.product_data = product_data]

optimize_price(m, feats, table, np, product_data, current_price, category, min_price, max_price) ==
    with_price(m, feats, table, np,
               SetItem(product_data, "Price", current_price),
               current_price, category,
               LowBound(current_price, min_price),
               HighBound(current_price, max_price))

\* mutant: 'INCREASE' if result['price_change_pct'] >= 0
recommendation_or_equal(product, result) ==
    [Product_Category |-> product["Product_Category"],
     Store_Location |-> product["Store_Location"],
     Current_Price |-> result.current_price,
     Recommended_Price |-> result.optimal_price,
     Price_Change_Pct |-> result.price_change_pct,
     Expected_Revenue_Increase_Pct |-> result.revenue_increase_pct,
     Recommendation |->
         IF RLeq(R(0), result.price_change_pct)
         THEN "INCREASE" ELSE "DECREASE"]

\* recommendation = {...}: the record built from a returned result
recommendation(product, result) ==
    [Product_Category |-> product["Product_Category"],
     Store_Location |-> product["Store_Location"],
     Current_Price |-> result.current_price,
     Recommended_Price |-> result.optimal_price,
     Price_Change_Pct |-> result.price_change_pct,
     Expected_Revenue_Increase_Pct |-> result.revenue_increase_pct,
     Recommendation |->
         IF Greater(result.price_change_pct, R(0))
         THEN "INCREASE" ELSE "DECREASE"]

\* the try block after optimize_price came back with outcome o
after_optimize(product, o) ==
    IF o.status = "raised"
    THEN [ok |-> FALSE, error |-> o.error, product |-> o.product_data,
          record |-> <<>>]
    ELSE IF "Store_Location" \notin DOMAIN product
    THEN [ok |-> FALSE, error |-> "KeyError", product |-> o.product_data,
          record |-> <<>>]
    ELSE [ok |-> TRUE, error |-> "none", product |-> o.product_data,
          record |-> recommendation(product, o.result)]

\* the body of the try block for one product: the record appended, or the
\* exception that leaves it
try_product(m, feats, table, np, product) ==
    IF "Price" \notin DOMAIN product \/ "Product_Category" \notin DOMAIN product
    THEN [ok |-> FALSE, error |-> "KeyError", product |-> product,
          record |-> <<>>]
    ELSE after_optimize(product,
             optimize_price(m, feats, table, np, product, product["Price"],
                            product["Product_Category"], None, None))

\* the except clause: print(f"Error processing {product['Product_Category']}
\* ..."), which itself needs the key
handler_raises(product) == "Product_Category" \notin DOMAIN product

\* mutant: except Exception: continue, with nothing printed
after_try_silent(st, i, t) ==
    IF t.ok
    THEN [st EXCEPT !.products[i] = t.product,
                    !.recommendations = Append(@, t.record),
                    !.kept = Append(@, i)]
    ELSE [st EXCEPT !.products[i] = t.product]

\* one pass of the for loop over product i, whose try block ended as t
after_try(st, i, t) ==
    IF t.ok
    THEN [st EXCEPT !.products[i] = t.product,
                    !.recommendations = Append(@, t.record),
                    !.kept = Append(@, i)]
    ELSE IF handler_raises(st.products[i])
    THEN [st EXCEPT !.pc = "raised", !.error = "KeyError",
                    !.products[i] = t.product, !.failed_at = i]
    ELSE [st EXCEPT !.products[i] = t.product,
                    !.printed = Append(@,
                        [index |-> i,
                         category |-> st.products[i]["Product_Category"],
                         error |-> t.error])]

\* generate_recommendations from product i on; st carries the products (as
\* the calls leave them), the records appended and the diagnostics printed.
\* An exception of the except clause leaves the loop and the call.
RECURSIVE generate_from(_, _, _, _, _, _)
generate_from(m, feats, table, np, i, st) ==
    IF st.pc = "raised" THEN st
    ELSE IF i > Len(st.products) THEN [st EXCEPT !.pc = "returned"]
    ELSE generate_from(m, feats, table, np, i + 1,
             after_try(st, i,
                 try_product(m, feats, table, np, st.products[i])))

generate_recommendations(m, feats, table, np, products_data) ==
    generate_from(m, feats, table, np, 1,
        [pc |-> "loop", error |-> "none", products |-> products_data,
         given |-> << >>, recommendations |-> << >>, kept |-> << >>, printed |-> << >>,
         failed_at |-> 0])

\* the product gets as far as the loop of optimize_price
reaches_lookup(m, feats, product) ==
    /\ {"Price", "Product_Category"} \subseteq DOMAIN product
    /\ ~forecast_demand(m, feats, product).raised

\* self.elasticities after the batch that ended as st, from product i on
RECURSIVE table_after_batch(_, _, _, _, _)
table_after_batch(m, feats, table, st, i) ==
    IF i > Len(st.products) \/ (st.pc = "raised" /\ i > st.failed_at)
    THEN table
    ELSE table_after_batch(m, feats,
             IF reaches_lookup(m, feats, st.products[i])
             THEN elasticities_after(table,
                      st.products[i]["Product_Category"])
             ELSE table,
             st, i + 1)

(***************************************************************************)
(* The state machine.                                                      *)
(*   model, numpy_prices  the loaded estimator; whether the caller's       *)
(*                        prices are numpy float64 scalars or Python floats*)
(*   elasticities, features  the optimizer's own tables                    *)
(*   fd        the last forecast_demand call and its outcome               *)
(*   call      the last optimize_price call and its outcome                *)
(*   products, gr  the batch of generate_recommendations and its progress  *)
(*   conc      two optimize_price calls running in two threads             *)
(*   http      the last request to the prediction server and its response  *)
(***************************************************************************)
NoCall == [status |-> "idle"]

\* product mappings a caller passes to forecast_demand and optimize_price
Contexts ==
    { SetItem(SampleProduct, "Price", p) : p \in Prices } \cup
    { SetItem(SampleProduct, "Promotion", NonNumeric),
      DelItem(SampleProduct, "Price") }

CallContexts ==
    { SampleProduct, SetItem(SampleProduct, "Promotion", NonNumeric) }

\* current prices of the calls: the prices above and one low enough that
\* the upper candidates of a supplied window lie more than 1 / 1.4 above it
CurrentPrices == Prices \cup {5}

InitWith(table) ==
    /\ model \in Models
    /\ numpy_prices \in BOOLEAN
    /\ elasticities = table
    /\ features = FeatureList
    /\ fd = NoCall
    /\ call = NoCall
    /\ products = << >>
    /\ gr = [pc |-> "idle"]
    /\ conc = [pc |-> "idle"]
    /\ http = [status |-> "idle"]

Init == InitWith(ElasticityTable)

\* optimizer.forecast_demand(product_data)
ForecastDemand(product_data) ==
    /\ fd.status = "idle" /\ call.status = "idle" /\ gr.pc = "idle"
    /\ fd' = [status |-> "done", product_data |-> product_data,
              vector |-> prepare_features(features, product_data),
              raw |-> predict(model, prepare_features(features, product_data)),
              out |-> forecast_demand(model, features, product_data)]
    /\ UNCHANGED <<model, numpy_prices, elasticities, features, conc, http,
                   call, products, gr>>

\* optimizer.optimize_price(product_data, current_price, category,
\*                          min_price, max_price), valid bounds only
OptimizePrice(product_data, current_price, category, min_price, max_price) ==
    /\ fd.status = "idle" /\ call.status = "idle" /\ gr.pc = "idle"
    /\ RLeq(LowBound(current_price, min_price),
            HighBound(current_price, max_price))
    /\ call' = [args |-> [product_data |-> product_data,
                           current_price |-> current_price,
                           category |-> category,
                           min_price |-> min_price, max_price |-> max_price],
                 out |-> optimize_price(model, features, elasticities,
                                        numpy_prices, product_data,
                                        current_price, category,
                                        min_price, max_price),
                 status |-> "done"]
    /\ elasticities' = table_after_call(elasticities, category, call'.out)
    /\ UNCHANGED <<model, numpy_prices, features, conc, http, fd, products,
                   gr>>

\* the caller takes the outcome of the last call; the optimizer is ready for
\* the next one
Consume ==
    /\ fd.status # "idle" \/ call.status # "idle"
    /\ fd' = NoCall
    /\ call' = NoCall
    /\ UNCHANGED <<model, numpy_prices, elasticities, features, conc, http,
                   products, gr>>

Next ==
    \/ Consume
    \/ \E pd \in Contexts : ForecastDemand(pd)
    \/ \E pd \in CallContexts, cp \in CurrentPrices, cat \in Categories,
          mn \in Prices \cup {None}, mx \in Prices \cup {None} :
            OptimizePrice(pd, cp, cat, mn, mx)

Spec == Init /\ [][Next]_vars

(***************************************************************************)
(* Batches: generate_recommendations over up to MaxBatch products.         *)
(***************************************************************************)
\* the products of a batch: the sample, one with no demand left at its
\* price under the price-sensitive regressor, one of a category outside
\* the table, one the estimator rejects, and three that lack a key
BatchProducts ==
    { SampleProduct,
      SetItem(SetItem(SampleProduct, "Product_Category", "Personal Care"),
              "Price", 11),
      SetItem(SampleProduct, "Product_Category", "Frozen"),
      SetItem(SampleProduct, "Promotion", NonNumeric),
      DelItem(SampleProduct, "Price"),
      DelItem(SampleProduct, "Product_Category"),
      DelItem(SampleProduct, "Store_Location") }

Batches == UNION { [1..n -> BatchProducts] : n \in 0..MaxBatch }

\* optimizer.generate_recommendations(products_data)
GenerateRecommendations(products_data) ==
    /\ fd.status = "idle" /\ call.status = "idle" /\ gr.pc = "idle"
    /\ gr' = [generate_recommendations(model, features, elasticities,
                                        numpy_prices, products_data)
                 EXCEPT !.given = products_data]
    /\ products' = gr'.products
    /\ elasticities' = table_after_batch(model, features, elasticities, gr', 1)
    /\ UNCHANGED <<model, numpy_prices, features, conc, http, fd, call>>

\* the caller takes the outcome of the batch
ConsumeBatch ==
    /\ gr.pc # "idle"
    /\ gr' = [pc |-> "idle"]
    /\ products' = << >>
    /\ UNCHANGED <<model, numpy_prices, elasticities, features, conc, http,
                   fd, call>>

NextBatch ==
    \/ ConsumeBatch
    \/ \E ps \in Batches : GenerateRecommendations(ps)

SpecBatch == Init /\ [][NextBatch]_vars

(***************************************************************************)
(* Two optimize_price calls in two threads of one optimizer.  The          *)
(* interpreter may switch threads between the store into the caller's      *)
(* mapping (product_data['Price'] = current_price) and the forecast that   *)
(* reads the mapping; the rest of a call works on its own locals.          *)
(***************************************************************************)
Threads == {1, 2}

\* both threads are started: each with its own current_price, on the same
\* mapping object or on two equal ones
StartCalls(cp1, cp2, same_mapping) ==
    /\ conc.pc = "idle"
    /\ fd.status = "idle" /\ call.status = "idle" /\ gr.pc = "idle"
    /\ conc' = [pc |-> "running",
                heap |-> <<SampleProduct, SampleProduct>>,
                t |-> <<[pc |-> "store", ref |-> 1, current_price |-> cp1,
                         category |-> SampleProduct["Product_Category"]],
                        [pc |-> "store",
                         ref |-> IF same_mapping THEN 1 ELSE 2,
                         current_price |-> cp2,
                         category |-> SampleProduct["Product_Category"]]>>]
    /\ UNCHANGED <<model, numpy_prices, elasticities, features, call, fd,
                   products, gr, http>>

\* product_data['Price'] = current_price
StorePrice(k) ==
    /\ conc.pc = "running"
    /\ conc.t[k].pc = "store"
    /\ conc' = [conc EXCEPT
                  !.heap[conc.t[k].ref] =
                      SetItem(@, "Price", conc.t[k].current_price),
                  !.t[k].pc = "forecast"]
    /\ UNCHANGED <<model, numpy_prices, elasticities, features, call, fd,
                   products, gr, http>>

\* base_demand = self.forecast_demand(product_data) and the rest of the call
ForecastAndSearch(k) ==
    /\ conc.pc = "running"
    /\ conc.t[k].pc = "forecast"
    /\ conc' = [conc EXCEPT
                  !.t[k] = [pc |-> "done", ref |-> @.ref,
                            current_price |-> @.current_price,
                            category |-> @.category,
                            out |-> with_price(model, features, elasticities,
                                       numpy_prices, conc.heap[@.ref],
                                       @.current_price, @.category,
                                       LowBound(@.current_price, None),
                                       HighBound(@.current_price, None))]]
    /\ UNCHANGED <<model, numpy_prices, elasticities, features, call, fd,
                   products, gr, http>>

\* both callers have taken their results
JoinCalls ==
    /\ conc.pc = "running"
    /\ \A k \in Threads : conc.t[k].pc = "done"
    /\ conc' = [pc |-> "idle"]
    /\ UNCHANGED <<model, numpy_prices, elasticities, features, call, fd,
                   products, gr, http>>

NextConc ==
    \/ JoinCalls
    \/ \E cp1 \in Prices, cp2 \in Prices, same \in BOOLEAN :
          StartCalls(cp1, cp2, same)
    \/ \E k \in Threads : StorePrice(k)
    \/ \E k \in Threads : ForecastAndSearch(k)

SpecConc == Init /\ [][NextConc]_vars

(***************************************************************************)
(* One optimize_price call, statement by statement.  call.invoked is the   *)
(* list of feature vectors the estimator was invoked with so far.          *)
(***************************************************************************)
\* the call enters: the bounds default, product_data['Price'] is stored
BeginCall(product_data, current_price, category, min_price, max_price) ==
    /\ fd.status = "idle" /\ call.status = "idle" /\ gr.pc = "idle"
    /\ RLeq(LowBound(current_price, min_price),
            HighBound(current_price, max_price))
    /\ call' = [status |-> "running", pc |-> "forecast",
                args |-> [product_data |-> product_data,
                          current_price |-> current_price,
                          category |-> category,
                          min_price |-> min_price, max_price |-> max_price],
                product_data |-> SetItem(product_data, "Price", current_price),
                lo |-> LowBound(current_price, min_price),
                hi |-> HighBound(current_price, max_price),
                invoked |-> << >>, results |-> << >>]
    /\ UNCHANGED <<model, numpy_prices, elasticities, features, fd,
                   products, gr, conc, http>>

\* the state of the call after forecast_demand answered f
after_forecast(c, vector, f) ==
    IF f.raised
    THEN [status |-> "done", args |-> c.args,
          invoked |-> Append(c.invoked, vector), results |-> c.results,
          out |-> [status |-> "raised", error |-> f.error,
                   product_data |-> c.product_data, result |-> << >>]]
    ELSE [c EXCEPT !.pc = "loop", !.invoked = Append(@, vector)] @@
         [base_demand |-> R(f.value),
          base_revenue |-> RMul(R(c.args.current_price), R(f.value)),
          best |-> [price |-> R(c.args.current_price),
                    revenue |-> RMul(R(c.args.current_price), R(f.value))]]

\* base_demand = self.forecast_demand(product_data), base_revenue, best
InvokeEstimator ==
    /\ call.status = "running" /\ call.pc = "forecast"
    /\ call' = after_forecast(call,
                   prepare_features(features, call.product_data),
                   forecast_demand(model, features, call.product_data))
    /\ UNCHANGED <<model, numpy_prices, elasticities, features, fd,
                   products, gr, conc, http>>

\* results.append(e) and the comparison with best_revenue
loop_step(c, e) ==
    [c EXCEPT !.results = Append(@, e),
              !.best = IF improves(e.revenue, c.best.revenue)
                       THEN [price |-> e.price, revenue |-> e.revenue]
                       ELSE @]

\* mutant: the estimator is asked again for every candidate
loop_body_reforecast(c, m, feats, table) ==
    loop_step([c EXCEPT !.invoked =
                  Append(@, prepare_features(feats, c.product_data))],
        simulate(linspace(c.lo, c.hi, NumPoints)[Len(c.results) + 1],
                 R(c.args.current_price), c.base_demand,
                 get_elasticity(table, c.args.category)))

\* one pass of the for loop, for the next candidate of price_points
loop_body(c, m, feats, table) ==
    loop_step(c,
        simulate(linspace(c.lo, c.hi, NumPoints)[Len(c.results) + 1],
                 R(c.args.current_price), c.base_demand,
                 get_elasticity(table, c.args.category)))

EvaluateCandidate ==
    /\ call.status = "running" /\ call.pc = "loop"
    /\ Len(call.results) < NumPoints
    /\ call' = loop_body(call, model, features, elasticities)
    /\ UNCHANGED <<model, numpy_prices, elasticities, features, fd,
                   products, gr, conc, http>>

\* return {...} after the last candidate
ReturnResult ==
    /\ call.status = "running" /\ call.pc = "loop"
    /\ Len(call.results) = NumPoints
    /\ call' = [status |-> "done", args |-> call.args,
                invoked |-> call.invoked, results |-> call.results,
                out |-> finish(numpy_prices, call.product_data,
                               R(call.args.current_price), call.base_revenue,
                               call.results, call.best)]
    /\ UNCHANGED <<model, numpy_prices, elasticities, features, fd,
                   products, gr, conc, http>>

\* the caller has the outcome
TakeResult ==
    /\ call.status = "done"
    /\ call' = NoCall
    /\ UNCHANGED <<model, numpy_prices, elasticities, features, fd,
                   products, gr, conc, http>>

NextSteps ==
    \/ InvokeEstimator
    \/ EvaluateCandidate
    \/ ReturnResult
    \/ TakeResult
    \/ \E pd \in CallContexts, cp \in Prices,
          cat \in {"Snacks", "Frozen"},
          mn \in {None, 9}, mx \in {None, 13} :
            BeginCall(pd, cp, cat, mn, mx)

SpecSteps == Init /\ [][NextSteps]_vars

(***************************************************************************)
(* Any sequence of forecast_demand, optimize_price and                     *)
(* generate_recommendations calls on one optimizer (batches of at most two *)
(* products here; longer ones are in SpecBatch).                           *)
(***************************************************************************)
ShortBatches == { ps \in Batches : Len(ps) <= 2 }

NextCalls ==
    \/ Next
    \/ ConsumeBatch
    \/ \E ps \in ShortBatches : GenerateRecommendations(ps)

SpecCalls == Init /\ [][NextCalls]_vars

(***************************************************************************)
(* A fixture with one coefficient of the table set to 0.                   *)
(***************************************************************************)
ZeroElasticityTable == [ElasticityTable EXCEPT !["Household"] = R(0)]

InitZero == InitWith(ZeroElasticityTable)

SpecZero == InitZero /\ [][Next]_vars

(***************************************************************************)
(* The prediction server (src/mock_api_server.py): POST /predict.          *)
(* A JSON object is a function from its keys to values; a JSON number is   *)
(* a rational as above, JsonString is a value that is no number.           *)
(***************************************************************************)
JsonString == [n |-> 0, d |-> -1]

\* marks a field left out of a request body
Absent == [n |-> 0, d |-> -2]

Fields ==
    <<"price", "promotion", "competitor_price", "day_of_week", "month",
      "inventory_level">>

\* the body with the fields given, the absent ones left out
Body(vals) ==
    [k \in {Fields[i] : i \in {j \in 1..Len(Fields) : vals[j] # Absent}} |->
        vals[CHOOSE i \in 1..Len(Fields) : Fields[i] = k]]

\* input_data.get(key, default)
Get(input_data, key, default) ==
    IF key \in DOMAIN input_data THEN input_data[key] ELSE default

\* int(x) of a number: the fraction is cut off towards zero
to_int(x) ==
    IF x.n >= 0 THEN R(x.n \div x.d) ELSE R(-((-x.n) \div x.d))

\* round(x, 2): to the nearest hundredth, a tie to the even one
round(x) ==
    LET h == RMul(x, R(100))
        q == h.n \div h.d
        r == h.n - q * h.d
    IN  IF 2 * r < h.d THEN Rat(q, 100)
        ELSE IF 2 * r > h.d THEN Rat(q + 1, 100)
        ELSE IF q % 2 = 0 THEN Rat(q, 100) ELSE Rat(q + 1, 100)

RMax(a, b) == IF RLess(a, b) THEN b ELSE a

RMin(a, b) == IF RLess(b, a) THEN b ELSE a

\* the product of the factors with the random variation, rounded and
\* clamped: max(0, round(prediction, 2))
demand_formula(price, promotion, competitor_price, day_of_week, month, inventory_level, variation) ==
    RMax(R(0), round(
        RMul(RMul(RMul(RMul(RMul(RMul(RMul(
            R(1000),
            RMax(R(0), RSub(R(1), RMul(RSub(price, R(10)), Rat(2, 25))))),
            IF promotion = R(1) THEN Rat(5, 4) ELSE R(1)),
            IF RLess(price, competitor_price) THEN Rat(23, 20)
            ELSE IF RLess(competitor_price, price) THEN Rat(9, 10)
            ELSE R(1)),
            IF day_of_week \in {R(6), R(7)} THEN Rat(11, 10) ELSE R(1)),
            RAdd(R(1), RDiv(RMul(Rat(3, 20),
                                 R(Abs(RSub(R(6), month).n))), R(6)))),
            RMin(R(1), RDiv(inventory_level, R(500)))),
            RAdd(R(1), variation))))

\* predict_demand(input_data): float(...) and int(...) raise on a value
\* that is no number, and every exception leaves as ValueError
predict_demand(input_data, variation) ==
    IF \E k \in DOMAIN input_data :
          k \in {Fields[i] : i \in 1..Len(Fields)} /\ input_data[k] = JsonString
    THEN [raised |-> TRUE, error |-> "ValueError", value |-> NaN]
    ELSE [raised |-> FALSE, error |-> "none",
          value |-> demand_formula(
                Get(input_data, "price", R(10)),
                to_int(Get(input_data, "promotion", R(0))),
                Get(input_data, "competitor_price", R(10)),
                to_int(Get(input_data, "day_of_week", R(1))),
                to_int(Get(input_data, "month", R(1))),
                to_int(Get(input_data, "inventory_level", R(500))),
                variation)]

required_fields ==
    <<"price", "promotion", "competitor_price", "day_of_week", "month">>

\* mutant: only the first missing field is reported
missing_fields_first(input_data) ==
    LET m == SelectSeq(required_fields, LAMBDA f : f \notin DOMAIN input_data)
    IN  IF m = << >> THEN m ELSE <<m[1]>>

\* [field for field in required_fields if field not in input_data]
missing_fields(input_data) ==
    SelectSeq(required_fields, LAMBDA f : f \notin DOMAIN input_data)

\* mutant: the two ends of the interval exchanged
confidence_interval_swapped(prediction) ==
    [lower |-> round(RMul(prediction, Rat(23, 20))),
     upper |-> round(RMul(prediction, Rat(17, 20))),
     confidence_level |-> Rat(19, 20)]

\* confidence_lower = round(prediction * 0.85, 2), confidence_upper = ...
confidence_interval(prediction) ==
    [lower |-> round(RMul(prediction, Rat(17, 20))),
     upper |-> round(RMul(prediction, Rat(23, 20))),
     confidence_level |-> Rat(19, 20)]

\* the response after predict_demand came back with p (the timestamp of
\* the response is left out)
respond(input_data, p) ==
    IF p.raised
    THEN [code |-> 400, computed |-> TRUE,
          json |-> [error |-> "Prediction error", status |-> "error"]]
    ELSE [code |-> 200, computed |-> TRUE,
          json |-> [predicted_demand |-> p.value,
                    confidence_interval |-> confidence_interval(p.value),
                    input_features |-> input_data,
                    model_version |-> "1.0",
                    status |-> "success"]]

\* def predict(): the handler of POST /predict
api_predict(is_json, input_data, variation) ==
    IF ~is_json
    THEN [code |-> 400, computed |-> FALSE,
          json |-> [error |-> "Request must be JSON", status |-> "error"]]
    ELSE IF missing_fields(input_data) # << >>
    THEN [code |-> 400, computed |-> FALSE,
          json |-> [error |-> "Missing required fields",
                    missing |-> missing_fields(input_data),
                    status |-> "error",
                    required_fields |-> required_fields]]
    ELSE respond(input_data, predict_demand(input_data, variation))

\* values of the fields in the requests of the model
FieldValues ==
    <<{R(8), Rat(21, 2), R(30), JsonString},
      {R(0), R(1)},
      {R(8), R(11)},
      {R(3), Rat(13, 2)},
      {R(6), R(12)},
      {R(250), JsonString}>>

\* random.uniform(-0.05, 0.05)
Variations == {Rat(-1, 20), R(0), Rat(1, 20)}

\* a client posts to /predict and the server answers
Predict(is_json, input_data, variation) ==
    /\ http.status = "idle"
    /\ fd.status = "idle" /\ call.status = "idle" /\ gr.pc = "idle"
    /\ conc.pc = "idle"
    /\ http' = [status |-> "done", is_json |-> is_json, body |-> input_data,
                variation |-> variation,
                response |-> api_predict(is_json, input_data, variation)]
    /\ UNCHANGED <<model, numpy_prices, elasticities, features, call, fd,
                   products, gr, conc>>

\* the client has read the response
ConsumeResponse ==
    /\ http.status = "done"
    /\ http' = [status |-> "idle"]
    /\ UNCHANGED <<model, numpy_prices, elasticities, features, call, fd,
                   products, gr, conc>>

NextApi ==
    \/ ConsumeResponse
    \/ \E v1 \in FieldValues[1] \cup {Absent},
          v2 \in FieldValues[2] \cup {Absent},
          v3 \in FieldValues[3] \cup {Absent},
          v4 \in FieldValues[4] \cup {Absent},
          v5 \in FieldValues[5] \cup {Absent},
          v6 \in FieldValues[6] \cup {Absent},
          is_json \in BOOLEAN, variation \in Variations :
            Predict(is_json, Body(<<v1, v2, v3, v4, v5, v6>>), variation)

SpecApi == Init /\ [][NextApi]_vars

(***************************************************************************)
(* The prediction server: POST /batch-predict, and GET on the routes that  *)
(* describe the service, in the two variants of the server                 *)
(* (src/AWS_DEPLOYMENT.py and src/mock_api_server.py).                     *)
(***************************************************************************)
\* longest 'scenarios' list of a batch request
MaxScenarios == 2

\* mutant: 'scenario_id': i, counted from 0
batch_entry_zero_based(i, scenario, p) ==
    IF p.raised
    THEN [scenario_id |-> i - 1, error |-> "Prediction error",
          input |-> scenario, status |-> "error"]
    ELSE [scenario_id |-> i - 1, predicted_demand |-> p.value,
          input |-> scenario, status |-> "success"]

\* the body of the loop for the scenario at position i (counted from 1),
\* predict_demand having come back with p
batch_entry(i, scenario, p) ==
    IF p.raised
    THEN [scenario_id |-> i, error |-> "Prediction error",
          input |-> scenario, status |-> "error"]
    ELSE [scenario_id |-> i, predicted_demand |-> p.value,
          input |-> scenario, status |-> "success"]

\* sum(1 for p in predictions if p['status'] == 'success')
count_successful(predictions) ==
    Len(SelectSeq(predictions, LAMBDA e : e.status = "success"))

\* the response for a non-empty list of scenarios
batch_response(scenarios, predictions) ==
    [code |-> 200,
     json |-> [predictions |-> predictions,
               total_scenarios |-> Len(scenarios),
               successful |-> count_successful(predictions),
               status |-> "success"]]

\* def batch_predict(): data is the JSON object of the request,
\* variations[i] the random variation met by scenario i
batch_predict(is_json, data, variations) ==
    IF ~is_json
    THEN [code |-> 400,
          json |-> [error |-> "Request must be JSON", status |-> "error"]]
    ELSE IF Get(data, "scenarios", << >>) = << >>
    THEN [code |-> 400,
          json |-> [error |-> "No scenarios provided", status |-> "error"]]
    ELSE batch_response(data["scenarios"],
            [i \in 1..Len(data["scenarios"]) |->
                batch_entry(i, data["scenarios"][i],
                    predict_demand(data["scenarios"][i], variations[i]))])

\* the scenarios of the model: the complete request of the tests, one with
\* only a price, an empty object, and two with a value that is no number
Scenarios ==
    { Body(<<Rat(21, 2), R(1), R(11), R(3), R(6), R(250)>>),
      Body(<<R(8), Absent, Absent, Absent, Absent, Absent>>),
      Body(<<Absent, Absent, Absent, Absent, Absent, Absent>>),
      Body(<<JsonString, R(1), R(11), R(3), R(6), R(250)>>),
      Body(<<R(8), R(0), R(11), R(3), R(6), JsonString>>) }

\* the JSON objects posted to /batch-predict: without 'scenarios', or with
\* a list of up to MaxScenarios scenarios
BatchRequests ==
    { << >> } \cup
    { [scenarios |-> l] :
        l \in UNION { [1..n -> Scenarios] : n \in 0..MaxScenarios } }

\* a client posts to /batch-predict and the server answers
BatchPredict(is_json, data, variations) ==
    /\ http.status = "idle"
    /\ fd.status = "idle" /\ call.status = "idle" /\ gr.pc = "idle"
    /\ conc.pc = "idle"
    /\ http' = [status |-> "done", route |-> "/batch-predict",
                is_json |-> is_json, data |-> data,
                variations |-> variations,
                response |-> batch_predict(is_json, data, variations)]
    /\ UNCHANGED <<model, numpy_prices, elasticities, features, call, fd,
                   products, gr, conc>>

ServerVariants == {"AWS_DEPLOYMENT", "mock_api_server"}

\* the JSON description of the service, with the endpoints it lists
service_info(endpoints) ==
    [content_type |-> "application/json",
     json |-> [service |-> "Bosch FMCG Pricing Optimization API",
               version |-> "1.0", status |-> "active",
               endpoints |-> endpoints]]

\* @app.errorhandler(404)
not_found ==
    [code |-> 404, content_type |-> "application/json",
     json |-> [error |-> "Endpoint not found", status |-> "error"]]

\* def home() of the variant: the service description in AWS_DEPLOYMENT,
\* the page of the interactive tester in mock_api_server
home(variant) ==
    IF variant = "AWS_DEPLOYMENT"
    THEN [code |-> 200] @@ service_info({"predict", "health", "info"})
    ELSE [code |-> 200, content_type |-> "text/html",
          text |-> "<!DOCTYPE html>"]

\* def api_info(): only mock_api_server has the route /api
api_info(variant) ==
    IF variant = "mock_api_server"
    THEN [code |-> 200] @@
         service_info({"predict", "health", "info", "batch_predict"})
    ELSE not_found

\* a client sends GET path to the server of the variant
GetRoute(variant, path) ==
    /\ http.status = "idle"
    /\ fd.status = "idle" /\ call.status = "idle" /\ gr.pc = "idle"
    /\ conc.pc = "idle"
    /\ http' = [status |-> "done", route |-> path, variant |-> variant,
                response |-> IF path = "/" THEN home(variant)
                             ELSE IF path = "/api" THEN api_info(variant)
                             ELSE not_found]
    /\ UNCHANGED <<model, numpy_prices, elasticities, features, call, fd,
                   products, gr, conc>>

NextServer ==
    \/ ConsumeResponse
    \/ \E is_json \in BOOLEAN, data \in BatchRequests,
          variations \in [1..MaxScenarios -> Variations] :
            BatchPredict(is_json, data, variations)
    \/ \E variant \in ServerVariants, path \in {"/", "/api", "/none"} :
            GetRoute(variant, path)

SpecServer == Init /\ [][NextServer]_vars

(***************************************************************************)
(* Observations of the last optimize_price call.                           *)
(***************************************************************************)
Returned == call.status = "done" /\ call.out.status = "returned"

Raised == call.status = "done" /\ call.out.status = "raised"

Result == call.out.result

Trace == call.out.result.simulation_results

MinPrice == LowBound(call.args.current_price, call.args.min_price)

MaxPriceBound == HighBound(call.args.current_price, call.args.max_price)

CurrentPrice == R(call.args.current_price)

\* the clamped estimate the call started from
BaseDemand == forecast_demand(model, features, call.out.product_data)

\* index of the first candidate with the largest revenue of the grid
IsGridMax(k) == \A i \in 1..Len(Trace) : RLeq(Trace[i].revenue, Trace[k].revenue)

FirstGridMax ==
    CHOOSE k \in 1..Len(Trace) :
        /\ IsGridMax(k)
        /\ \A j \in 1..(k - 1) : ~IsGridMax(j)

(***************************************************************************)
(* C1  Every returned trace has exactly 50 points, ascending in price and  *)
(* evenly spaced, from min_price (first) to max_price (last).              *)
(***************************************************************************)
C1_GridShape ==
    Returned =>
        /\ Len(Trace) = 50
        /\ Trace[1].price = MinPrice
        /\ Trace[50].price = MaxPriceBound
        /\ \A i \in 1..49 :
            /\ RLeq(Trace[i].price, Trace[i + 1].price)
            /\ RLess(MinPrice, MaxPriceBound)
                   => RLess(Trace[i].price, Trace[i + 1].price)
        /\ \A i \in 1..48 :
               RSub(Trace[i + 1].price, Trace[i].price)
                   = RSub(Trace[i + 2].price, Trace[i + 1].price)

C1_Witness ==
    /\ Returned
    /\ call.args.min_price = 9 /\ call.args.max_price = 11
    /\ Trace[2].price = Rat(443, 49)

(***************************************************************************)
(* C2  A returned optimal_revenue is never below current_revenue.          *)
(***************************************************************************)
C2_BaselineIncluded ==
    Returned => RLeq(Result.current_revenue, Result.optimal_revenue)

C2_Witness ==
    /\ Returned
    /\ RLess(Result.current_revenue, Result.optimal_revenue)
    /\ \E i \in 1..50 : RLess(Trace[i].revenue, Result.current_revenue)

(***************************************************************************)
(* C3  optimal_revenue is the maximum of current_revenue and the revenues  *)
(* of the 50 trace points, and optimal_price is current_price or a grid    *)
(* price whose revenue is optimal_revenue.                                 *)
(***************************************************************************)
C3_RevenueMaximal ==
    Returned =>
        /\ RLeq(Result.current_revenue, Result.optimal_revenue)
        /\ \A i \in 1..50 : RLeq(Trace[i].revenue, Result.optimal_revenue)
        /\ \/ /\ Result.optimal_price = CurrentPrice
              /\ Result.optimal_revenue = Result.current_revenue
           \/ \E i \in 1..50 :
                /\ Trace[i].price = Result.optimal_price
                /\ Trace[i].revenue = Result.optimal_revenue

C3_Witness ==
    /\ Returned
    /\ Result.optimal_price = Trace[50].price
    /\ RLess(Result.current_revenue, Result.optimal_revenue)
    /\ RLess(Trace[49].revenue, Trace[50].revenue)

(***************************************************************************)
(* C4  Tie-break: when some candidate strictly beats the baseline revenue  *)
(* the returned price is the lowest-priced (first) candidate of maximal    *)
(* revenue; when none does, the returned price is exactly current_price.   *)
(***************************************************************************)
C4_TieBreak ==
    Returned =>
        IF RLess(Result.current_revenue, Trace[FirstGridMax].revenue)
        THEN /\ Result.optimal_price = Trace[FirstGridMax].price
             /\ Result.optimal_revenue = Trace[FirstGridMax].revenue
        ELSE /\ Result.optimal_price = CurrentPrice
             /\ Result.optimal_revenue = Result.current_revenue

C4_Witness ==
    /\ Returned
    /\ RLess(Result.current_revenue, Result.optimal_revenue)
    /\ \E i \in 1..50 :
        /\ i > FirstGridMax
        /\ Trace[i].revenue = Trace[FirstGridMax].revenue
        /\ RLess(Trace[FirstGridMax].price, Trace[i].price)

(***************************************************************************)
(* C5  The symmetric example: current_price 10, bounds 9 and 11, base      *)
(* demand 1000, an unknown category (elasticity -1): no candidate exceeds  *)
(* 10000, the call returns price 10 and revenue 10000, and the candidates  *)
(* at prices 9 and 11 both have revenue 9900.                              *)
(***************************************************************************)
C5_Case ==
    /\ call.status = "done"
    /\ call.args.current_price = 10
    /\ call.args.min_price = 9 /\ call.args.max_price = 11
    /\ call.args.category \notin DOMAIN elasticities
    /\ ~BaseDemand.raised /\ BaseDemand.value = 1000

C5_SymmetryExample ==
    C5_Case =>
        /\ Returned
        /\ Result.optimal_price = R(10)
        /\ Result.optimal_revenue = R(10000)
        /\ Result.current_revenue = R(10000)
        /\ \A i \in 1..50 : ~RLess(R(10000), Trace[i].revenue)
        /\ Trace[1].price = R(9) /\ Trace[1].revenue = R(9900)
        /\ Trace[1].demand = R(1100)
        /\ Trace[50].price = R(11) /\ Trace[50].revenue = R(9900)
        /\ Trace[50].demand = R(900)

C5_Witness == C5_Case /\ Returned

(***************************************************************************)
(* C6  Zero elasticity with base_demand > 0: every trace point's demand is *)
(* base_demand.  As claimed: revenue is strictly increasing along the      *)
(* trace and the returned price is exactly max_price, for any valid bounds.*)
(***************************************************************************)
C6_Case ==
    /\ Returned
    /\ call.args.category \in DOMAIN elasticities
    /\ elasticities[call.args.category] = R(0)
    /\ BaseDemand.value > 0

C6_ZeroElasticityAsClaimed ==
    C6_Case =>
        /\ \A i \in 1..50 : Trace[i].demand = R(BaseDemand.value)
        /\ \A i \in 1..49 : RLess(Trace[i].revenue, Trace[i + 1].revenue)
        /\ Result.optimal_price = MaxPriceBound

\* C6 as amended: revenue is strictly increasing along the trace when
\* min_price < max_price and constant when they are equal, and the returned
\* price is max_price when max_price > current_price, current_price
\* otherwise.
C6_ZeroElasticity ==
    C6_Case =>
        /\ \A i \in 1..50 : Trace[i].demand = R(BaseDemand.value)
        /\ \A i \in 1..49 :
            IF RLess(MinPrice, MaxPriceBound)
            THEN RLess(Trace[i].revenue, Trace[i + 1].revenue)
            ELSE Trace[i].revenue = Trace[i + 1].revenue
        /\ Result.optimal_price =
               IF RLess(CurrentPrice, MaxPriceBound)
               THEN MaxPriceBound ELSE CurrentPrice

C6_Witness ==
    /\ C6_Case
    /\ RLess(MaxPriceBound, CurrentPrice)
    /\ RLess(MinPrice, MaxPriceBound)
    /\ Result.optimal_price = CurrentPrice

(***************************************************************************)
(* C7  Whenever current_price x base_demand is 0, optimize_price raises a  *)
(* defined baseline error (here: whatever its name) and returns no result. *)
(***************************************************************************)
C7_ZeroBaselineRaises ==
    (call.status = "done" /\ ~BaseDemand.raised /\ BaseDemand.value = 0) =>
        /\ call.out.status = "raised"
        /\ call.out.error \in {"InvalidBaseline", "ZeroDivisionError"}

(***************************************************************************)
(* Observations of the last generate_recommendations call.                 *)
(***************************************************************************)
BatchReturned == gr.pc = "returned"

BatchIndices == [i \in 1..Len(gr.given) |-> i]

PrintedIndices == [j \in 1..Len(gr.printed) |-> gr.printed[j].index]

\* the estimator is invoked for the product and raises
EstimatorRaises(product) ==
    /\ {"Price", "Product_Category"} \subseteq DOMAIN product
    /\ predict(model, prepare_features(features, product)).raised

\* the product has the keys the loop reads, the estimator answers, and the
\* percentage over the baseline revenue can be formed
Completes(product) ==
    /\ {"Price", "Product_Category", "Store_Location"} \subseteq DOMAIN product
    /\ ~predict(model, prepare_features(features, product)).raised
    /\ numpy_prices \/ forecast_demand(model, features, product).value > 0

C9_BatchNeverAborts ==
    gr.pc # "idle" =>
        /\ gr.pc = "returned"
        /\ Len(gr.kept) + Len(gr.printed) = Len(gr.given)

(***************************************************************************)
(* C10  forecast_demand returns a non-negative value whenever the          *)
(* estimator answers: 0 for a negative estimate, the estimate itself       *)
(* otherwise.                                                              *)
(***************************************************************************)
C10_ForecastClamped ==
    (fd.status = "done" /\ ~fd.raw.raised) =>
        /\ ~fd.out.raised
        /\ fd.out.value >= 0
        /\ fd.raw.value < 0 => fd.out.value = 0
        /\ fd.raw.value >= 0 => fd.out.value = fd.raw.value

C10_Witness ==
    /\ fd.status = "done"
    /\ ~fd.raw.raised /\ fd.raw.value < 0
    /\ ~fd.out.raised /\ fd.out.value = 0

(***************************************************************************)
(* C11.  The default search window.  When min_price is omitted the lowest  *)
(* candidate of the grid is current_price * 0.7; when max_price is omitted *)
(* the highest candidate is current_price * 1.3.  Each bound defaults on   *)
(* its own, and a bound the caller supplies is used unchanged.             *)
(***************************************************************************)
C11_DefaultWindow ==
    Returned =>
        /\ Trace[1].price =
              IF call.args.min_price = None
              THEN RMul(R(call.args.current_price), Rat(7, 10))
              ELSE R(call.args.min_price)
        /\ Trace[NumPoints].price =
              IF call.args.max_price = None
              THEN RMul(R(call.args.current_price), Rat(13, 10))
              ELSE R(call.args.max_price)

\* only the lower bound is omitted: it defaults, the supplied upper bound
\* stays as given
C11_Witness ==
    /\ Returned
    /\ call.args.min_price = None
    /\ call.args.max_price = 11
    /\ call.args.current_price = 10
    /\ Trace[1].price = R(7)
    /\ Trace[NumPoints].price = R(11)

(***************************************************************************)
(* C12.  Every point of the trace has demand >= 0, revenue >= 0 and        *)
(* revenue = price * demand, for any valid bounds and category; the        *)
(* adjusted demand is clamped at zero when elasticity * price_change_pct   *)
(* is below -1.                                                            *)
(***************************************************************************)
C12_TraceNonNegative ==
    Returned =>
        \A i \in 1..Len(Trace) :
            /\ RLeq(R(0), Trace[i].demand)
            /\ RLeq(R(0), Trace[i].revenue)
            /\ Trace[i].revenue = RMul(Trace[i].price, Trace[i].demand)

(***************************************************************************)
(* C13.  Elasticity lookup.  A category of the table has its own, negative *)
(* coefficient applied to every candidate price; any other category has   *)
(* -1.0 applied and the lookup never makes the call fail.                  *)
(***************************************************************************)
C13_Coefficient ==
    IF call.args.category \in DOMAIN elasticities
    THEN elasticities[call.args.category]
    ELSE R(-1)

C13_ElasticityLookup ==
    /\ (call.status = "done" /\ call.args.category \in DOMAIN elasticities)
          => RLess(elasticities[call.args.category], R(0))
    /\ (call.status = "done" /\ ~BaseDemand.raised /\ BaseDemand.value > 0)
          => Returned
    /\ Returned =>
          \A i \in 1..Len(Trace) :
              RMul(Trace[i].demand, CurrentPrice) =
                  RMul(R(BaseDemand.value),
                       RAdd(CurrentPrice,
                            RMul(C13_Coefficient,
                                 RSub(Trace[i].price, CurrentPrice))))

\* a category outside the table: at a price 10% above the current price the
\* demand is 10% below the estimate
C13_Witness ==
    /\ Returned
    /\ call.args.category = "Frozen"
    /\ call.args.current_price = 10
    /\ call.args.max_price = 11
    /\ BaseDemand.value = 1000
    /\ Trace[NumPoints].demand = R(900)

(***************************************************************************)
(* C14.  prepare_features never rejects a mapping: it yields exactly 18    *)
(* values in the order of the feature list, position i holding the         *)
(* mapping's value for feature i when the key is present and 0 when it is  *)
(* absent; keys outside the feature list leave the vector unaffected.      *)
(***************************************************************************)
C14_FeatureVector ==
    fd.status = "done" =>
        /\ Len(fd.vector) = 18
        /\ \A i \in 1..18 :
              \/ /\ FeatureList[i] \in DOMAIN fd.product_data
                 /\ fd.vector[i] = fd.product_data[FeatureList[i]]
              \/ /\ FeatureList[i] \notin DOMAIN fd.product_data
                 /\ fd.vector[i] = 0

\* a mapping without 'Price' that carries 'Product_Category' and
\* 'Store_Location', which are no features
C14_Witness ==
    /\ fd.status = "done"
    /\ "Price" \notin DOMAIN fd.product_data
    /\ {"Product_Category", "Store_Location"} \subseteq DOMAIN fd.product_data
    /\ fd.vector[1] = 0
    /\ fd.vector[2] = fd.product_data["Promotion"]
    /\ Len(fd.vector) = 18

(***************************************************************************)
(* C15.  Concurrent optimize_price calls need no coordination: for every   *)
(* interleaving of two calls, each call returns the result it returns when *)
(* run alone, also when both calls are given the same mapping with         *)
(* different current_price values.                                         *)
(***************************************************************************)
\* the outcome of thread k's call when it runs alone on a fresh mapping
C15_Alone(k) ==
    optimize_price(model, features, elasticities, numpy_prices,
                   SampleProduct, conc.t[k].current_price,
                   conc.t[k].category, None, None)

C15_Isolation ==
    conc.pc = "running" =>
        \A k \in Threads :
            conc.t[k].pc = "done" =>
                /\ conc.t[k].out.status = C15_Alone(k).status
                /\ conc.t[k].out.result = C15_Alone(k).result

(***************************************************************************)
(* C16.  The figures of a returned result.  revenue_increase_pct is        *)
(* (optimal_revenue - current_revenue) / current_revenue * 100 and         *)
(* price_change_pct is (optimal_price - current_price) / current_price *   *)
(* 100; the price_change_pct of a trace point is the fraction              *)
(* (price - current_price) / current_price, not scaled by 100;             *)
(* current_price is the caller's, and current_revenue is current_price *   *)
(* base_demand.  (With a current_revenue of 0 the quotient is 0 / 0, the   *)
(* float nan.)                                                             *)
(***************************************************************************)
C16_ResultFigures ==
    Returned =>
        /\ Result.current_price = CurrentPrice
        /\ Result.current_revenue = RMul(CurrentPrice, R(BaseDemand.value))
        /\ RMul(Result.price_change_pct, CurrentPrice) =
              RMul(RSub(Result.optimal_price, CurrentPrice), R(100))
        /\ IF Result.current_revenue = R(0)
           THEN IsNaN(Result.revenue_increase_pct)
           ELSE RMul(Result.revenue_increase_pct, Result.current_revenue) =
                   RMul(RSub(Result.optimal_revenue, Result.current_revenue),
                        R(100))
        /\ \A i \in 1..Len(Trace) :
              RMul(Trace[i].price_change_pct, CurrentPrice) =
                  RSub(Trace[i].price, CurrentPrice)

\* a call that finds a better price: the default window around 10 for
\* 'Personal Care', whose last candidate 13 is 30% above the current price
C16_Witness ==
    /\ Returned
    /\ call.args.current_price = 10
    /\ call.args.category = "Personal Care"
    /\ call.args.min_price = None /\ call.args.max_price = None
    /\ Greater(Result.optimal_revenue, Result.current_revenue)
    /\ Greater(Result.price_change_pct, R(0))
    /\ Greater(Result.revenue_increase_pct, R(0))
    /\ Trace[NumPoints].price_change_pct = Rat(3, 10)

(***************************************************************************)
(* C17.  The label of a recommendation is 'INCREASE' when its              *)
(* price_change_pct is above 0 and 'DECREASE' otherwise; a product whose   *)
(* recommended price equals its current price (price_change_pct = 0) is    *)
(* labelled 'DECREASE'.                                                    *)
(***************************************************************************)
C17_Label ==
    gr.pc # "idle" =>
        \A j \in 1..Len(gr.recommendations) :
            /\ RLess(R(0), gr.recommendations[j].Price_Change_Pct)
                  => gr.recommendations[j].Recommendation = "INCREASE"
            /\ ~RLess(R(0), gr.recommendations[j].Price_Change_Pct)
                  => gr.recommendations[j].Recommendation = "DECREASE"
            /\ gr.recommendations[j].Recommended_Price =
                  gr.recommendations[j].Current_Price
                  => gr.recommendations[j].Recommendation = "DECREASE"
            /\ gr.recommendations[j].Recommendation = "INCREASE"
                  <=> RLess(gr.recommendations[j].Current_Price,
                            gr.recommendations[j].Recommended_Price)

\* one batch with all three cases: a lower price, an unchanged price (the
\* category outside the table, demand above 0) and a higher price
C17_Witness ==
    /\ gr.pc = "returned"
    /\ \E j \in 1..Len(gr.recommendations) :
          /\ gr.recommendations[j].Product_Category = "Frozen"
          /\ gr.recommendations[j].Price_Change_Pct = R(0)
          /\ Greater(gr.recommendations[j].Expected_Revenue_Increase_Pct, R(-1))
          /\ gr.recommendations[j].Recommendation = "DECREASE"
    /\ \E j \in 1..Len(gr.recommendations) :
          /\ RLess(gr.recommendations[j].Price_Change_Pct, R(0))
          /\ gr.recommendations[j].Recommendation = "DECREASE"
    /\ \E j \in 1..Len(gr.recommendations) :
          /\ RLess(R(0), gr.recommendations[j].Price_Change_Pct)
          /\ gr.recommendations[j].Recommendation = "INCREASE"

(***************************************************************************)
(* C18.  When the estimator raises during optimize_price the error leaves  *)
(* optimize_price (no result, nothing swallowed); generate_recommendations *)
(* catches it per item, continues, and returns only the successful         *)
(* recommendations together with a log of the skipped items.               *)
(***************************************************************************)
\* the first half, on single calls: the estimator's error is the outcome
C18_Propagates ==
    (call.status = "done" /\ BaseDemand.raised) =>
        /\ Raised
        /\ call.out.error = BaseDemand.error
        /\ call.out.result = << >>

\* the second half, on batches in which an estimator error was caught
C18_EstimatorFailureSkipped ==
    (gr.pc # "idle"
        /\ \E j \in 1..Len(gr.printed) : gr.printed[j].error = "ValueError") =>
        /\ gr.pc = "returned"
        /\ Len(gr.recommendations) = Len(gr.kept)
        /\ \A j \in 1..Len(gr.kept) : Completes(gr.given[gr.kept[j]])
        /\ \A i \in 1..Len(gr.given) :
              EstimatorRaises(gr.given[i]) =>
                  /\ \A j \in 1..Len(gr.kept) : gr.kept[j] # i
                  /\ \E j \in 1..Len(gr.printed) :
                        /\ gr.printed[j].index = i
                        /\ gr.printed[j].error = "ValueError"

(***************************************************************************)
(* Observations of the last request to POST /predict.                      *)
(***************************************************************************)
Answered == http.status = "done" /\ http.is_json

Required == {"price", "promotion", "competitor_price", "day_of_week", "month"}

\* all five required fields are in the body, each with a number
RequiredNumeric ==
    \A f \in Required :
        f \in DOMAIN http.body /\ http.body[f] # JsonString

(***************************************************************************)
(* C19.  POST /predict with a JSON object lacking any of the five required *)
(* fields answers 400 with status 'error' and names exactly the missing    *)
(* fields, without computing a prediction; inventory_level is optional and *)
(* its absence alone never causes an error.                                *)
(***************************************************************************)
C19_MissingFields ==
    /\ (Answered /\ \E f \in Required : f \notin DOMAIN http.body) =>
          /\ http.response.code = 400
          /\ http.response.json.status = "error"
          /\ http.response.json.error = "Missing required fields"
          /\ { http.response.json.missing[i] :
                  i \in 1..Len(http.response.json.missing) }
                = Required \ DOMAIN http.body
          /\ Len(http.response.json.missing)
                = Cardinality(Required \ DOMAIN http.body)
          /\ ~http.response.computed
    /\ (Answered /\ RequiredNumeric
            /\ "inventory_level" \notin DOMAIN http.body) =>
          /\ http.response.code = 200
          /\ http.response.json.status = "success"

\* the request of the error-handling test: a body with the price alone
C19_Witness ==
    /\ Answered
    /\ DOMAIN http.body = {"price"}
    /\ http.response.code = 400
    /\ http.response.json.missing =
          <<"promotion", "competitor_price", "day_of_week", "month">>
    /\ ~http.response.computed

C20_Rounded(a, b) ==
    /\ RLeq(RSub(b, Rat(1, 200)), a)
    /\ RLeq(a, RAdd(b, Rat(1, 200)))
    /\ RMul(a, R(100)).d = 1

BatchAnswered ==
    http.status = "done" /\ http.route = "/batch-predict" /\ http.is_json

\* the scenario has a value that float() or int() cannot convert
HasNonNumber(scenario) ==
    \E k \in DOMAIN scenario : scenario[k] = JsonString

C21_BatchPredict ==
    /\ (BatchAnswered /\ "scenarios" \in DOMAIN http.data
            /\ Len(http.data["scenarios"]) > 0) =>
          /\ http.response.code = 200
          /\ http.response.json.status = "success"
          /\ Len(http.response.json.predictions) = Len(http.data["scenarios"])
          /\ http.response.json.total_scenarios = Len(http.data["scenarios"])
          /\ http.response.json.successful =
                Cardinality({ i \in 1..Len(http.response.json.predictions) :
                    http.response.json.predictions[i].status = "success" })
          /\ \A i \in 1..Len(http.data["scenarios"]) :
                /\ http.response.json.predictions[i].scenario_id = i
                /\ http.response.json.predictions[i].input
                      = http.data["scenarios"][i]
                /\ http.response.json.predictions[i].status =
                      IF HasNonNumber(http.data["scenarios"][i])
                      THEN "error" ELSE "success"
    /\ (BatchAnswered /\ ("scenarios" \notin DOMAIN http.data
                            \/ Len(http.data["scenarios"]) = 0)) =>
          /\ http.response.code = 400
          /\ http.response.json.status = "error"

\* a failing scenario first, a good one after it
C21_Witness ==
    /\ BatchAnswered
    /\ "scenarios" \in DOMAIN http.data
    /\ Len(http.data["scenarios"]) = 2
    /\ HasNonNumber(http.data["scenarios"][1])
    /\ http.response.code = 200
    /\ http.response.json.predictions[1].status = "error"
    /\ http.response.json.predictions[2].status = "success"
    /\ http.response.json.predictions[2].scenario_id = 2
    /\ http.response.json.successful = 1
    /\ http.response.json.total_scenarios = 2

(***************************************************************************)
(* C22.  GET / answers 200 with a JSON body describing the service (the    *)
(* body the test suite reads with response.json()), in every variant of    *)
(* the server.                                                             *)
(***************************************************************************)
C22_HomeIsJson ==
    (http.status = "done" /\ http.route = "/") =>
        /\ http.response.code = 200
        /\ http.response.content_type = "application/json"
        /\ http.response.json.service = "Bosch FMCG Pricing Optimization API"

(***************************************************************************)
(* C23.  Within one optimize_price call the estimator is invoked exactly   *)
(* once, with the price feature set to current_price, and before any       *)
(* candidate is evaluated; the 50 candidates are evaluated with            *)
(* adjusted_demand = base_demand * (1 + elasticity * price_change_pct) and *)
(* never invoke the estimator again.                                       *)
(***************************************************************************)
\* the clamped answer of the estimator to the one invocation of the call
C23_Estimate ==
    IF predict(model, call.invoked[1]).value > 0
    THEN predict(model, call.invoked[1]).value ELSE 0

C23_EstimatorOnce ==
    call.status # "idle" =>
        /\ Len(call.invoked) <= 1
        /\ (call.status = "done" \/ call.pc = "loop" \/ Len(call.results) > 0)
              => /\ Len(call.invoked) = 1
                 /\ call.invoked[1][1] = call.args.current_price
                 /\ \A i \in 2..Len(call.invoked[1]) :
                       call.invoked[1][i] =
                          IF FeatureList[i] \in DOMAIN call.args.product_data
                          THEN call.args.product_data[FeatureList[i]] ELSE 0
        /\ \A i \in 1..Len(call.results) :
              RMul(call.results[i].demand, R(call.args.current_price)) =
                  RMul(R(C23_Estimate),
                       RAdd(R(call.args.current_price),
                            RMul(C13_Coefficient,
                                 RSub(call.results[i].price,
                                      R(call.args.current_price)))))
        /\ (call.status = "done" /\ call.out.status = "returned")
              => /\ Len(call.results) = NumPoints
                 /\ call.out.result.simulation_results = call.results
                 /\ call.out = optimize_price(model, features, elasticities,
                        numpy_prices, call.args.product_data,
                        call.args.current_price, call.args.category,
                        call.args.min_price, call.args.max_price)

\* a call that has returned after its 50 candidates, one invocation behind
C23_Witness ==
    /\ call.status = "done"
    /\ call.out.status = "returned"
    /\ Len(call.invoked) = 1
    /\ Len(call.results) = NumPoints
    /\ call.invoked[1][1] = 11
    /\ call.args.product_data["Price"] = 10

(***************************************************************************)
(* C24.  The elasticity table and the feature list of an optimizer are     *)
(* unchanged by any sequence of prepare_features, forecast_demand,         *)
(* optimize_price and generate_recommendations calls, including calls with *)
(* unknown categories and calls that fail.                                 *)
(***************************************************************************)
C24_TablesUnchanged ==
    /\ elasticities = ElasticityTable
    /\ features = FeatureList
    /\ DOMAIN elasticities =
          {"Snacks", "Beverages", "Dairy", "Household", "Personal Care"}

\* the calls the claim names have happened with the tables as constructed:
\* an optimize_price call with a category outside the table has returned
C24_Witness ==
    /\ Returned
    /\ call.args.category = "Frozen"
    /\ "Frozen" \notin DOMAIN elasticities
    /\ elasticities = ElasticityTable
    /\ features = FeatureList

(***************************************************************************)
(* C25.  The effect of optimize_price on the caller's mapping: after the   *)
(* call its 'Price' entry equals current_price and every other entry is    *)
(* unchanged, also when the call fails after the estimator step; so        *)
(* generate_recommendations, which passes current_price =                  *)
(* product['Price'], leaves every product mapping of the batch unchanged.  *)
(***************************************************************************)
C25_ContextEffect ==
    /\ call.status = "done" =>
          /\ DOMAIN call.out.product_data
                = DOMAIN call.args.product_data \cup {"Price"}
          /\ call.out.product_data["Price"] = call.args.current_price
          /\ \A k \in DOMAIN call.args.product_data \ {"Price"} :
                call.out.product_data[k] = call.args.product_data[k]
    /\ gr.pc # "idle" =>
          /\ products = gr.given
          /\ gr.products = gr.given

\* a call that failed at the division after the loop: the mapping came with
\* Price 10 and is left with the current price 11
C25_Witness ==
    /\ Raised
    /\ call.out.error = "ZeroDivisionError"
    /\ call.args.product_data["Price"] = 10
    /\ call.args.current_price = 11
    /\ call.out.product_data["Price"] = 11
    /\ call.out.product_data["Promotion"] = call.args.product_data["Promotion"]

(***************************************************************************)
(* C26.  For every optimize_price call with explicit bounds                *)
(* 0 < min_price <= max_price the returned optimal_price lies within       *)
(* [min_price, max_price], also when current_price lies outside that       *)
(* interval.                                                               *)
(***************************************************************************)
ExplicitBounds ==
    call.args.min_price # None /\ call.args.max_price # None

C26_OptimalWithinBoundsAsClaimed ==
    (Returned /\ ExplicitBounds) =>
        /\ RLeq(R(call.args.min_price), Result.optimal_price)
        /\ RLeq(Result.optimal_price, R(call.args.max_price))

\* C26 as amended: the returned optimal_price is a candidate of the grid
\* whose revenue is above the baseline revenue, and then lies within
\* [min_price, max_price], or it is current_price itself, when no candidate
\* has a revenue above the baseline; with current_price outside the interval
\* the optimal_price can lie outside it.
C26_OptimalWithinBounds ==
    (Returned /\ ExplicitBounds) =>
        \/ /\ Result.optimal_price = CurrentPrice
           /\ Result.optimal_revenue = Result.current_revenue
           /\ \A i \in 1..Len(Trace) :
                 RLeq(Trace[i].revenue, Result.current_revenue)
        \/ /\ RLeq(R(call.args.min_price), Result.optimal_price)
           /\ RLeq(Result.optimal_price, R(call.args.max_price))
           /\ RLess(Result.current_revenue, Result.optimal_revenue)
           /\ \E i \in 1..Len(Trace) :
                 /\ Trace[i].price = Result.optimal_price
                 /\ Trace[i].revenue = Result.optimal_revenue

\* current price 13 above the window [9, 10] for 'Personal Care': every
\* candidate earns less than the baseline and 13 is returned
C26_Witness ==
    /\ Returned
    /\ call.args.current_price = 13
    /\ call.args.min_price = 9 /\ call.args.max_price = 10
    /\ call.args.category = "Personal Care"
    /\ BaseDemand.value > 0
    /\ Result.optimal_price = R(13)

(***************************************************************************)
(* C27.  With the default search window (both bounds omitted) and any      *)
(* category, known or unknown, every trace point has demand >= 0 and       *)
(* revenue >= 0: every elasticity in use is at least -1.4 and              *)
(* |price_change_pct| <= 0.3, so 1 + elasticity * price_change_pct stays   *)
(* positive.                                                               *)
(***************************************************************************)
DefaultWindow ==
    call.args.min_price = None /\ call.args.max_price = None

C27_DefaultWindowNonNegative ==
    (Returned /\ DefaultWindow) =>
        /\ RLeq(Rat(-7, 5), C13_Coefficient)
        /\ \A i \in 1..Len(Trace) :
              /\ RLeq(Rat(-3, 10), Trace[i].price_change_pct)
              /\ RLeq(Trace[i].price_change_pct, Rat(3, 10))
              /\ RLess(R(0), RAdd(R(1), RMul(C13_Coefficient,
                                             Trace[i].price_change_pct)))
              /\ RLeq(R(0), Trace[i].demand)
              /\ RLeq(R(0), Trace[i].revenue)
              /\ BaseDemand.value > 0 => RLess(R(0), Trace[i].demand)

\* the steepest case: 'Snacks' at 30% above the current price keeps 58% of
\* the estimated demand
C27_Witness ==
    /\ Returned /\ DefaultWindow
    /\ call.args.category = "Snacks"
    /\ call.args.current_price = 10
    /\ BaseDemand.value = 1000
    /\ Trace[NumPoints].price = R(13)
    /\ Trace[NumPoints].demand = R(580)

(***************************************************************************)
(* C28.  For every optimize_price call that returns with current_revenue   *)
(* above 0: revenue_increase_pct >= 0, and revenue_increase_pct = 0        *)
(* exactly when optimal_price = current_price (equivalently, the result's  *)
(* price_change_pct is 0 exactly when no candidate strictly improved on    *)
(* the baseline revenue).                                                  *)
(***************************************************************************)
C28_RevenueIncrease ==
    (Returned /\ RLess(R(0), Result.current_revenue)) =>
        /\ RLeq(R(0), Result.revenue_increase_pct)
        /\ Result.revenue_increase_pct = R(0)
              <=> Result.optimal_price = CurrentPrice
        /\ Result.price_change_pct = R(0)
              <=> \A i \in 1..Len(Trace) :
                     RLeq(Trace[i].revenue, Result.current_revenue)
        /\ Result.price_change_pct = R(0)
              <=> Result.revenue_increase_pct = R(0)

\* 'Dairy' at 9 with the window [10, 10]: every candidate earns exactly the
\* baseline revenue, none improves on it, and the current price is kept
C28_Witness ==
    /\ Returned /\ RLess(R(0), Result.current_revenue)
    /\ call.args.category = "Dairy"
    /\ call.args.current_price = 9
    /\ call.args.min_price = 10 /\ call.args.max_price = 10
    /\ Trace[1].revenue = Result.current_revenue
    /\ Result.revenue_increase_pct = R(0)
    /\ Result.optimal_price = R(9)

====
